---- MODULE Spec2Model ----
(***************************************************************************)
(* Model of src/src/pathmap.rs: the PathMap trait and its two grid maps,   *)
(* PathMap2d (a Grid<bool>) and PathMap2DWeighted (a Grid<GridCell>).      *)
(***************************************************************************)
EXTENDS Integers, Sequences, FiniteSets, TLC

VARIABLES
    kind,        \* which map was constructed: "binary" (PathMap2d) or "weighted"
    grid,        \* Grid::data, the row-major Vec behind the map, indexed from 0
    ret,         \* the call whose result the caller holds, or Idle between calls
    lastSet,     \* history: per coordinate, the value of the latest set_obstacle
    reopened,    \* history: the coordinate the latest set_obstacle unblocked, if it did
    walk         \* a pathfinder's walk along exits: start, current node, cost so far

vars == <<kind, grid, ret, lastSet, reopened, walk>>

----------------------------------------------------------------------------
(* Bounds of the model *)

Width == 3
Height == 3
MaxSetCells == 4
MaxSteps == 2

(* i32 *)
I32Max == 2147483647
I32Min == (-I32Max) - 1

----------------------------------------------------------------------------
(* Coordinates (glam::IVec2) *)

Pt(x, y) == [x |-> x, y |-> y]

\* the coordinates of the grid
Coord == {Pt(x, y) : x \in 0..(Width - 1), y \in 0..(Height - 1)}

\* the coordinates a caller may pass: the grid and a margin of one around it
ExtCoord == {Pt(x, y) : x \in (-1)..Width, y \in (-1)..Height}

\* the coordinates distance is asked about: ExtCoord and one more row
DistCoord == {Pt(x, y) : x \in (-1)..Width, y \in (-1)..(Height + 1)}

\* the cells the caller writes: the first MaxSetCells cells of the storage
SetCoord == {p \in Coord : p.y * Width + p.x < MaxSetCells}

\* Grid::in_bounds
in_bounds(p) == /\ p.x >= 0
                /\ p.y >= 0
                /\ p.x < Width
                /\ p.y < Height

\* the eight offsets GridPoint::adj_8 walks, in its order
DIR_8 == << Pt(0, 1), Pt(0, -1), Pt(-1, 0), Pt(1, 0),
            Pt(-1, 1), Pt(1, 1), Pt(-1, -1), Pt(1, -1) >>

\* adj_8 with the second offset repeating the first
adj_8_dup(p) == [i \in 1..8 |->
                   IF i = 2 THEN Pt(p.x + DIR_8[1].x, p.y + DIR_8[1].y)
                            ELSE Pt(p.x + DIR_8[i].x, p.y + DIR_8[i].y)]

\* adj_8 that stops before the last diagonal
adj_8_short(p) == [i \in 1..7 |-> Pt(p.x + DIR_8[i].x, p.y + DIR_8[i].y)]

\* GridPoint::adj_8
adj_8(p) == [i \in 1..8 |-> Pt(p.x + DIR_8[i].x, p.y + DIR_8[i].y)]

----------------------------------------------------------------------------
(* Cells *)

Weighted(v) == [tag |-> "Weighted", v |-> v]
Blocked == [tag |-> "Blocked", v |-> 0]
NonWeighted == [tag |-> "NonWeighted", v |-> 0]

\* Grid::default(size): bool::default() and the #[default] variant of GridCell
DefaultCell(k) == IF k = "binary" THEN FALSE ELSE NonWeighted

\* PathMap2d::new / PathMap2DWeighted::new
new(k) == [i \in 0..(Width * Height - 1) |-> DefaultCell(k)]

\* Index<P> for Grid with a transposed linear index
CellIndexTransposed(p) == p.x * Height + p.y

\* Index<P> for Grid: the linear index of an in-bounds coordinate
CellIndex(p) == p.y * Width + p.x

\* self[p]
Get(g, p) == g[CellIndex(p)]

\* self[p] = v, written at the transposed index
PutTransposed(g, p, v) == [g EXCEPT ![CellIndexTransposed(p)] = v]

\* self[p] = v
Put(g, p, v) == [g EXCEPT ![CellIndex(p)] = v]

----------------------------------------------------------------------------
(* PathMap for PathMap2d *)

\* the loop of PathMap2d::exits over adj[i..], pushing onto points
RECURSIVE exitsLoop2d(_, _, _, _)
exitsLoop2d(g, adj, i, points) ==
    IF i > Len(adj) THEN points
    ELSE IF ~in_bounds(adj[i]) THEN exitsLoop2d(g, adj, i + 1, points)
    ELSE IF ~Get(g, adj[i]) THEN exitsLoop2d(g, adj, i + 1, Append(points, adj[i]))
    ELSE exitsLoop2d(g, adj, i + 1, points)

\* PathMap2d::exits
exits2d(g, p) == exitsLoop2d(g, adj_8(p), 1, << >>)

\* PathMap2d::cost
cost2d(a, b) == 1

Abs(n) == IF n < 0 THEN -n ELSE n

\* taxi_dist as the larger of the two axis differences
taxi_dist_chebyshev(a, b) ==
    IF Abs(a.x - b.x) > Abs(a.y - b.y) THEN Abs(a.x - b.x) ELSE Abs(a.y - b.y)

\* GridPoint::taxi_dist: the components of (a - b).abs(), added
taxi_dist(a, b) == Abs(a.x - b.x) + Abs(a.y - b.y)

\* PathMap2d::distance and PathMap2DWeighted::distance
distance(a, b) == taxi_dist(a, b)

----------------------------------------------------------------------------
(* PathMap for PathMap2DWeighted *)

\* the if-let of PathMap2DWeighted::exits, letting every cell through
passableAny(c) == TRUE

\* the if-let of PathMap2DWeighted::exits: Weighted(_) | NonWeighted
passable(c) == c.tag = "Weighted" \/ c.tag = "NonWeighted"

\* the loop of PathMap2DWeighted::exits over adj[i..], pushing onto points
RECURSIVE exitsLoopWeighted(_, _, _, _)
exitsLoopWeighted(g, adj, i, points) ==
    IF i > Len(adj) THEN points
    ELSE IF ~in_bounds(adj[i]) THEN exitsLoopWeighted(g, adj, i + 1, points)
    ELSE IF passable(Get(g, adj[i]))
         THEN exitsLoopWeighted(g, adj, i + 1, Append(points, adj[i]))
    ELSE exitsLoopWeighted(g, adj, i + 1, points)

\* PathMap2DWeighted::exits
exitsWeighted(g, p) == exitsLoopWeighted(g, adj_8(p), 1, << >>)

(* usize arithmetic.  A usize is written hi * 2^BITS + lo with lo small and  *)
(* possibly negative; it is inside 0 .. 2^BITS - 1 exactly when hi = 0 and   *)
(* lo >= 0, or hi = 1 and lo < 0.  `checks` is the build's overflow-checks   *)
(* setting: with it an overflowing operation panics, without it it wraps.    *)

\* `n as usize` for an i32 n: sign extension
AsUsize(n) == [hi |-> IF n < 0 THEN 1 ELSE 0, lo |-> n]

UsizeInRange(u) == (u.hi = 0 /\ u.lo >= 0) \/ (u.hi = 1 /\ u.lo < 0)

UsizeWrap(u) == [hi |-> IF u.lo < 0 THEN 1 ELSE 0, lo |-> u.lo]

\* GridPoint::as_index: y as usize * width + x as usize
as_index(p, width, checks) ==
    LET ux   == AsUsize(p.x)
        uy   == AsUsize(p.y)
        prod == [hi |-> uy.hi * width, lo |-> uy.lo * width]
        sum  == [hi |-> UsizeWrap(prod).hi + ux.hi, lo |-> prod.lo + ux.lo]
    IN  [panic |-> checks /\ (~UsizeInRange(prod) \/ ~UsizeInRange(sum)),
         idx   |-> UsizeWrap(sum)]

\* slice.get(idx) is Some
SliceHas(g, u) == u.hi = 0 /\ u.lo \in DOMAIN g

Ok(v) == [tag |-> "ok", val |-> v]
Panic == [tag |-> "panic", val |-> 0]

\* a + b on i32
I32Add(a, b, checks) ==
    IF b > 0 /\ a > I32Max - b
    THEN IF checks THEN Panic ELSE Ok((a - I32Max - 1) + (b - I32Max - 1))
    ELSE IF b < 0 /\ a < I32Min - b
    THEN IF checks THEN Panic ELSE Ok((a + I32Max + 1) + (b + I32Max + 1))
    ELSE Ok(a + b)

\* the match of PathMap2DWeighted::cost on (c1, c2)
costMatch(c1, c2, checks) ==
    IF c1.tag = "Weighted" /\ c2.tag = "Weighted" THEN I32Add(c1.v, c2.v, checks)
    ELSE IF c1.tag = "Weighted" THEN I32Add(c1.v, 1, checks)
    ELSE IF c2.tag = "Weighted" THEN I32Add(c2.v, 1, checks)
    ELSE Ok(2)

\* PathMap2DWeighted::cost
costWeighted(g, p1, p2, checks) ==
    LET idx1 == as_index(p1, Width, checks)
        idx2 == as_index(p2, Width, checks)
    IN  IF idx1.panic \/ idx2.panic THEN Panic
        ELSE IF SliceHas(g, idx1.idx) /\ SliceHas(g, idx2.idx)
             THEN costMatch(g[idx1.idx.lo], g[idx2.idx.lo], checks)
        ELSE Panic

----------------------------------------------------------------------------
(* State machine: the map and the calls made on it *)

Call(op, a, b, out) == [op |-> op, a |-> a, b |-> b, out |-> out]

\* no call in progress
Idle == Call("idle", Pt(0, 0), Pt(0, 0), 0)

NoWalk == [active |-> FALSE, start |-> Pt(0, 0), cur |-> Pt(0, 0), g |-> 0, n |-> 0]

\* the inputs of set_obstacle on the weighted map
SmallCells == {NonWeighted, Blocked, Weighted(3)}
CostCells == {NonWeighted, Blocked, Weighted(3), Weighted(I32Max)}
PathCells == {NonWeighted, Blocked, Weighted(0)}

\* a cell value that keeps a coordinate out of exits
IsBlocking(v) == IF kind = "binary" THEN v ELSE v.tag = "Blocked"

InitMap(k) ==
    /\ kind = k
    /\ grid = new(k)
    /\ ret = Idle
    /\ lastSet = [p \in Coord |-> [set |-> FALSE, v |-> DefaultCell(k)]]
    /\ reopened = {}
    /\ walk = NoWalk

Init == \E k \in {"binary", "weighted"} : InitMap(k)

InitWeighted == InitMap("weighted")

\* set_obstacle writing the cell; lastSet notes the call
Store(p, v) ==
    /\ ret = Idle
    /\ ~walk.active
    /\ in_bounds(p)
    /\ grid' = Put(grid, p, v)
    /\ lastSet' = [lastSet EXCEPT ![p] = [set |-> TRUE, v |-> v]]
    /\ reopened' = IF IsBlocking(Get(grid, p)) /\ ~IsBlocking(v) THEN {p} ELSE {}
    /\ UNCHANGED <<kind, ret, walk>>

\* a query: the map is read, the call and its result are noted
Query(call) ==
    /\ ret = Idle
    /\ ~walk.active
    /\ ret' = call
    /\ UNCHANGED <<kind, grid, lastSet, reopened, walk>>

\* the caller takes the result; the next call can be made
Return ==
    /\ ret # Idle
    /\ ret' = Idle
    /\ UNCHANGED <<kind, grid, lastSet, reopened, walk>>

\* PathMap2d::set_obstacle
SetObstacle2d(p, v) == kind = "binary" /\ Store(p, v)

\* PathMap2DWeighted::set_obstacle
SetObstacleWeighted(p, v) == kind = "weighted" /\ Store(p, v)

\* PathMap2d::is_obstacle
IsObstacle2d(p) ==
    kind = "binary" /\ in_bounds(p) /\ Query(Call("is_obstacle", p, p, Get(grid, p)))

\* PathMap2DWeighted::is_obstacle
IsObstacleWeighted(p) ==
    kind = "weighted" /\ in_bounds(p) /\ Query(Call("is_obstacle", p, p, Get(grid, p)))

\* PathMap2d::exits
Exits2d(p) == kind = "binary" /\ Query(Call("exits", p, p, exits2d(grid, p)))

\* PathMap2DWeighted::exits
ExitsWeighted(p) == kind = "weighted" /\ Query(Call("exits", p, p, exitsWeighted(grid, p)))

\* PathMap2d::cost
Cost2d(a, b) == kind = "binary" /\ Query(Call("cost", a, b, Ok(cost2d(a, b))))

\* PathMap2DWeighted::cost
CostWeighted(a, b) ==
    /\ kind = "weighted"
    /\ \E checks \in BOOLEAN : Query(Call("cost", a, b, costWeighted(grid, a, b, checks)))

\* PathMap2d::distance
Distance2d(a, b) == kind = "binary" /\ Query(Call("distance", a, b, distance(a, b)))

\* PathMap2DWeighted::distance
DistanceWeighted(a, b) == kind = "weighted" /\ Query(Call("distance", a, b, distance(a, b)))

\* the caller is free to call a method of the map of kind k
CanCall(k) == kind = k /\ ret = Idle /\ ~walk.active

\* the pathfinder's use of cost: on a coordinate and one of its exits
Cost2dOfExit(a) ==
    /\ kind = "binary"
    /\ ret = Idle
    /\ \E i \in 1..Len(exits2d(grid, a)) : Cost2d(a, exits2d(grid, a)[i])

CostWeightedOfExit(a) ==
    /\ kind = "weighted"
    /\ ret = Idle
    /\ \E i \in 1..Len(exitsWeighted(grid, a)) : CostWeighted(a, exitsWeighted(grid, a)[i])

(* A pathfinder's walk: from a start, along exits, adding up cost *)

\* a search starts at s
Begin(s) ==
    /\ ret = Idle
    /\ ~walk.active
    /\ walk' = [active |-> TRUE, start |-> s, cur |-> s, g |-> 0, n |-> 0]
    /\ UNCHANGED <<kind, grid, ret, lastSet, reopened>>

\* the walk moves to b at cost c
MoveTo(b, c) ==
    /\ c.tag = "ok"
    /\ walk' = [walk EXCEPT !.cur = b, !.g = walk.g + c.val, !.n = walk.n + 1]
    /\ UNCHANGED <<kind, grid, ret, lastSet, reopened>>

\* one expansion on PathMap2d: an exit of the current node, and its cost
Step2d ==
    /\ kind = "binary"
    /\ walk.active
    /\ walk.n < MaxSteps
    /\ \E i \in 1..Len(exits2d(grid, walk.cur)) :
           LET b == exits2d(grid, walk.cur)[i]
           IN  MoveTo(b, Ok(cost2d(walk.cur, b)))

\* one expansion on PathMap2DWeighted
StepWeighted ==
    /\ kind = "weighted"
    /\ walk.active
    /\ walk.n < MaxSteps
    /\ \E i \in 1..Len(exitsWeighted(grid, walk.cur)), checks \in BOOLEAN :
           LET b == exitsWeighted(grid, walk.cur)[i]
           IN  MoveTo(b, costWeighted(grid, walk.cur, b, checks))

\* the search ends; the map can be written again
Finish ==
    /\ walk.active
    /\ walk' = NoWalk
    /\ UNCHANGED <<kind, grid, ret, lastSet, reopened>>

(* The map under mutation and the queries a pathfinder makes on it *)
Next ==
    \/ CanCall("binary") /\ \E p \in SetCoord, v \in BOOLEAN : SetObstacle2d(p, v)
    \/ CanCall("weighted") /\ \E p \in SetCoord, v \in SmallCells : SetObstacleWeighted(p, v)
    \/ CanCall("binary") /\ \E p \in Coord : IsObstacle2d(p)
    \/ CanCall("weighted") /\ \E p \in Coord : IsObstacleWeighted(p)
    \/ CanCall("binary") /\ \E p \in ExtCoord : Exits2d(p)
    \/ CanCall("weighted") /\ \E p \in ExtCoord : ExitsWeighted(p)
    \/ CanCall("binary") /\ \E a \in Coord : Cost2dOfExit(a)
    \/ CanCall("weighted") /\ \E a \in Coord : CostWeightedOfExit(a)
    \/ CanCall("binary") /\ \E a \in Coord, b \in SetCoord : Distance2d(a, b)
    \/ CanCall("weighted") /\ \E a \in Coord, b \in SetCoord : DistanceWeighted(a, b)
    \/ Return

Spec == Init /\ [][Next]_vars

(* distance on arbitrary coordinates, over maps with cells blocked *)
NextDist ==
    \/ CanCall("binary") /\ \E p \in SetCoord : SetObstacle2d(p, TRUE)
    \/ CanCall("weighted") /\ \E p \in SetCoord : SetObstacleWeighted(p, Blocked)
    \/ CanCall("binary") /\ \E a \in DistCoord, b \in DistCoord : Distance2d(a, b)
    \/ CanCall("weighted") /\ \E a \in DistCoord, b \in DistCoord : DistanceWeighted(a, b)
    \/ Return

SpecDist == Init /\ [][NextDist]_vars

(* cost on the weighted map, on arbitrary coordinates and weights up to i32::MAX *)
NextCost ==
    \/ CanCall("weighted") /\ \E p \in SetCoord, v \in CostCells : SetObstacleWeighted(p, v)
    \/ CanCall("weighted") /\ \E a \in ExtCoord, b \in ExtCoord : CostWeighted(a, b)
    \/ Return

SpecCost == InitWeighted /\ [][NextCost]_vars

(* searches over maps with cells blocked or weighted *)
NextPath ==
    \/ CanCall("binary") /\ \E p \in SetCoord, v \in BOOLEAN : SetObstacle2d(p, v)
    \/ CanCall("weighted") /\ \E p \in SetCoord, v \in PathCells : SetObstacleWeighted(p, v)
    \/ \E s \in Coord : Begin(s)
    \/ Step2d
    \/ StepWeighted
    \/ Finish

SpecPath == Init /\ [][NextPath]_vars

----------------------------------------------------------------------------
(* Properties *)

Range(s) == {s[i] : i \in 1..Len(s)}

Max(m, n) == IF m >= n THEN m ELSE n
Min(m, n) == IF m <= n THEN m ELSE n

\* the in-bounds cells of the 8-connected neighbourhood of p
Neighbours8(p) ==
    {q \in Coord : q # p /\ q.x - p.x \in {-1, 0, 1} /\ q.y - p.y \in {-1, 0, 1}}

\* what the calls made so far say the cell at q holds
CurrentCell(q) ==
    IF lastSet[q].set THEN lastSet[q].v
    ELSE IF kind = "binary" THEN FALSE ELSE [tag |-> "NonWeighted", v |-> 0]

\* q is passable by the calls made so far
PassableNow(q) ==
    IF kind = "binary" THEN CurrentCell(q) = FALSE ELSE CurrentCell(q).tag # "Blocked"

\* C1: on both maps, after any sequence of set_obstacle calls, exits(p) for an
\* in-bounds p yields exactly the in-bounds 8-connected neighbours of p whose
\* latest set_obstacle value (or the default) is passable.
C1_ExitsArePassableNeighbours ==
    (ret.op = "exits" /\ in_bounds(ret.a)) =>
        Range(ret.out) = {q \in Neighbours8(ret.a) : PassableNow(q)}

\* exits(p) has left out a blocked neighbour and yields a neighbour that the
\* latest set_obstacle call turned from blocked back to passable
C1_Witness ==
    /\ ret.op = "exits"
    /\ in_bounds(ret.a)
    /\ \E q \in reopened : q \in Neighbours8(ret.a) /\ q \in Range(ret.out)
    /\ \E q \in Neighbours8(ret.a) : ~PassableNow(q) /\ q \notin Range(ret.out)

\* C2: for every in-bounds p and every map state of either map, exits(p) yields
\* at most 8 coordinates, pairwise distinct, all inside the grid, none equal to p.
C2_ExitsWellFormed ==
    (ret.op = "exits" /\ in_bounds(ret.a)) =>
        /\ Len(ret.out) <= 8
        /\ \A i, j \in 1..Len(ret.out) : i # j => ret.out[i] # ret.out[j]
        /\ \A i \in 1..Len(ret.out) :
              /\ ret.out[i].x \in 0..(Width - 1)
              /\ ret.out[i].y \in 0..(Height - 1)
              /\ ret.out[i] # ret.a

\* exits of an interior cell yields all 8 neighbours, on a map that was written
C2_Witness ==
    /\ ret.op = "exits"
    /\ in_bounds(ret.a)
    /\ Len(ret.out) = 8
    /\ \E q \in Coord : lastSet[q].set

\* C8: on both maps every cell holds the value of the latest set_obstacle on it,
\* or the default if there was none, whatever queries and set_obstacle calls on
\* other cells were made; and is_obstacle(p) returns that value.
C8_CellsHoldLastSet ==
    /\ \A p \in Coord : Get(grid, p) = CurrentCell(p)
    /\ ret.op = "is_obstacle" => ret.out = CurrentCell(ret.a)

\* is_obstacle(p) returns the blocking value set on p, another cell was written
\* as well, and a third was never written
C8_Witness ==
    /\ ret.op = "is_obstacle"
    /\ lastSet[ret.a].set
    /\ IsBlocking(ret.out)
    /\ \E q \in Coord : q # ret.a /\ lastSet[q].set
    /\ \E q \in Coord : ~lastSet[q].set

\* C9: on both maps distance(a,b) = |a.x - b.x| + |a.y - b.y| whatever the map
\* holds; so distance(a,b) = distance(b,a), distance(a,a) = 0 and
\* distance([0,0],[3,4]) = 7.
C9_DistanceIsTaxicab ==
    ret.op = "distance" =>
        /\ ret.out = (Max(ret.a.x, ret.b.x) - Min(ret.a.x, ret.b.x))
                     + (Max(ret.a.y, ret.b.y) - Min(ret.a.y, ret.b.y))
        /\ ret.out = distance(ret.b, ret.a)
        /\ ret.a = ret.b => ret.out = 0
        /\ (ret.a = Pt(0, 0) /\ ret.b = Pt(3, 4)) => ret.out = 7

\* distance([0,0],[3,4]) on a map with blocked cells
C9_Witness ==
    /\ ret.op = "distance"
    /\ ret.a = Pt(0, 0)
    /\ ret.b = Pt(3, 4)
    /\ \E q \in Coord : ~PassableNow(q)

\* val is the sum the cost table gives for cells ca and cb (weights >= 0)
TableSum(ca, cb, val) ==
    IF ca.tag = "Weighted" /\ cb.tag = "Weighted" THEN val >= 0 /\ val - ca.v = cb.v
    ELSE IF ca.tag = "Weighted" THEN val >= 0 /\ val - ca.v = 1
    ELSE IF cb.tag = "Weighted" THEN val >= 0 /\ val - cb.v = 1
    ELSE val = 2

C4_DistanceAdmissible2d ==
    (kind = "binary" /\ walk.active) => distance(walk.start, walk.cur) <= walk.g

\* C5: on the weighted map with non-negative weights distance never exceeds the
\* cost of a path from start to cur along exits.
C5_DistanceAdmissibleWeighted ==
    (/\ kind = "weighted"
     /\ walk.active
     /\ \A q \in Coord : CurrentCell(q).v >= 0) => distance(walk.start, walk.cur) <= walk.g

\* C6: on the weighted map cost(a,b) with a or b outside the grid aborts and
\* returns no cost.
C6_CostOutOfBoundsAborts ==
    (/\ ret.op = "cost"
     /\ kind = "weighted"
     /\ ~in_bounds(ret.a) \/ ~in_bounds(ret.b)) => ret.out.tag = "panic"

\* C7: on the weighted map with non-negative weights, cost(a,b) for in-bounds a
\* and b an exit of a returns a non-negative value equal to the exact table sum.
C7_CostNonNegativeExact ==
    (/\ ret.op = "cost"
     /\ kind = "weighted"
     /\ in_bounds(ret.a)
     /\ ret.b \in {q \in Neighbours8(ret.a) : PassableNow(q)}
     /\ \A q \in Coord : CurrentCell(q).v >= 0) =>
        /\ ret.out.tag = "ok"
        /\ ret.out.val >= 0
        /\ TableSum(CurrentCell(ret.a), CurrentCell(ret.b), ret.out.val)

\* C10: on the weighted map cost(a,b) with in-bounds a and b, one of them
\* Blocked, fails hard and returns no cost.
C10_CostOnBlockedAborts ==
    (/\ ret.op = "cost"
     /\ kind = "weighted"
     /\ in_bounds(ret.a) /\ in_bounds(ret.b)
     /\ ~PassableNow(ret.a) \/ ~PassableNow(ret.b)) => ret.out.tag = "panic"

====
